---- MODULE Spec2Model ----
(***************************************************************************)
(* clap-adapters: the path source (PathTo), and the two reload adapters    *)
(* built on it: Reloading (filesystem notifications) and Periodic (timer   *)
(* task).  Both keep the current located value in a tokio watch channel    *)
(* whose sender is owned by the background trigger and whose receivers are *)
(* handed to the application (get / receiver / stream).                    *)
(***************************************************************************)
EXTENDS Integers, Sequences, FiniteSets, TLC

\* ---------------------------------------------------------------- bounds
MaxWrites == 2      \* writes the environment makes to the file system
MaxPublish == 2     \* publishes after the initial value
MaxClones == 2      \* live-value handles ever created (the first included)
MaxSubs == 2        \* subscriber slots (receiver handles and streams)
MaxFileLen == 2     \* bytes in a file or in a response body

\* ------------------------------------------------------------ value sets
Paths == {"p", "q"}
Missing == "missing"
Decodable == {"v1", "v2"}
Contents == Decodable \cup {"bad"}
FileStates == Contents \cup {Missing}
Subs == 1..MaxSubs

NoValue == [path |-> "none", data |-> "none"]
NoResult == [ok |-> FALSE, data |-> "none", err |-> "none"]
NoChannel == [value |-> NoValue, version |-> 0, closed |-> FALSE]
NoSub == [kind |-> "none", seen |-> 0, first |-> FALSE, ended |-> FALSE,
          idx |-> 0, val |-> NoValue]

VARIABLES
    kind,       \* the adapter type of the CLI field: "Reloading" or "Periodic"
    arg,        \* the string handed to from_str
    fs,         \* the file system: path -> content or Missing
    writes,     \* number of environment writes so far
    pending,    \* the notify backend holds an undelivered event for the watched path
    status,     \* from_str: "unbuilt", "loaded", "ok", or the error kind
    ch,         \* the watch channel: current cell, version, sender dropped
    log,        \* every value placed in the cell, in publish order
    clones,     \* live-value handles created so far
    handles,    \* live-value handles not yet dropped
    watcher,    \* Reloading: "none", "active", "stopping", "dropped"
    triggers,   \* background triggers started (watches registered, tasks spawned)
    pc,         \* position of the watcher callback / the timer task
    loaded,     \* data_result of the load attempt in progress
    lastLog,    \* level of the last tracing record of the current attempt
    subs,       \* subscriber slots: receiver handles and streams
    ld,         \* a source adapter's from_str call followed step by step
    store,      \* what that call's location resolves to: a file or an HTTP endpoint
    orphanedAt, \* history: while no subscriber is held after one was, the cell's
                \* version when the last of them was dropped; -1 otherwise
    unwatched   \* history: the file was written after the initial load and before
                \* the trigger was set up, and no load attempt was made since

vars == <<kind, arg, fs, writes, pending, status, ch, log, clones, handles,
          watcher, triggers, pc, loaded, lastLog, subs, ld, store, orphanedAt,
          unwatched>>

\* ------------------------------------------------------- pure functions

\* serde deserializer behind JsonOf / YamlOf / TomlOf
Deserialize(c) ==
    CASE c = "v1" -> "d1"
      [] c = "v2" -> "d2"
      [] OTHER -> "none"

\* T::from_reader: decode the bytes read from the reader
from_reader(c) ==
    IF c \in Decodable
    THEN [ok |-> TRUE, data |-> Deserialize(c), err |-> "none"]
    ELSE [ok |-> FALSE, data |-> "none", err |-> "decode"]

\* PathBuf::from(s)
PathBuf_from(s) == s

\* std::fs::File::open(&path)
File_open(p, f) == f[p] # Missing

\* the closure computing data_result: open, buffer, decode
data_result(p, f) ==
    IF ~File_open(p, f)
    THEN [ok |-> FALSE, data |-> "none", err |-> "open"]
    ELSE from_reader(f[p])

\* PathTo::<T>::from_str(s)
PathTo_from_str(s, f) ==
    LET p == PathBuf_from(s)
        r == data_result(p, f)
    IN  IF r.ok
        THEN [ok |-> TRUE, value |-> [path |-> p, data |-> r.data], err |-> "none"]
        ELSE [ok |-> FALSE, value |-> NoValue, err |-> r.err]

\* the path captured by the watcher callback / the timer task
path == PathBuf_from(arg)

\* faulty variant, for comparison: the channel starts empty and waits for the trigger to fill it
watch_channel_empty(v) == [value |-> NoValue, version |-> 0, closed |-> FALSE]

\* watch::channel(path_to.clone())
watch_channel(v) == [value |-> v, version |-> 0, closed |-> FALSE]

\* faulty variant, for comparison: the Err arm falls through to the publish
is_Ok_always(r) == TRUE

\* match data_result { Ok(data) => data, Err(error) => ... }
is_Ok(r) == r.ok

\* faulty variant, for comparison: the reload locates the value where the file system resolves the path
updated_path_to_resolved(p, d) == [path |-> "q", data |-> d]

\* PathTo { path: path.clone(), data }
updated_path_to(p, d) == [path |-> p, data |-> d]

\* faulty variant, for comparison: the subscribers are notified but the cell keeps the old value
send_replace_stale(c, v) == [c EXCEPT !.version = @ + 1]

\* faulty variant, for comparison: a value equal to the one held is not sent (send_if_modified)
send_replace_if_modified(c, v) ==
    IF v = c.value THEN c ELSE [c EXCEPT !.value = v, !.version = @ + 1]

\* faulty variant, for comparison: the value is written field by field, and readers are woken after the first
send_replace_torn(c, v) == [c EXCEPT !.value.path = v.path, !.version = @ + 1]

\* reload_tx.send_replace(updated_path_to)
send_replace(c, v) == [c EXCEPT !.value = v, !.version = @ + 1]

\* faulty variant, for comparison: the Err arm re-sends the value it holds, waking every subscriber
on_load_error_notifies(c) == send_replace(c, c.value)

\* the Err arm: tracing::error!, then return / continue; the channel is not touched
on_load_error(c) == c

\* faulty variant, for comparison: reload_tx outlives the watcher
drop_watcher_leak(c) == c

\* dropping the watcher drops its callback, which owns reload_tx
drop_watcher(c) == [c EXCEPT !.closed = TRUE]

\* self.reload_rx.borrow().clone()
get == ch.value

\* faulty variant, for comparison: the handle comes from the sender's subscribe(), which marks the current value seen
reload_rx_subscribe == [kind |-> "receiver", seen |-> ch.version, first |-> FALSE,
                        ended |-> FALSE, idx |-> 0, val |-> NoValue]

\* self.reload_rx.clone(): the version the live value's own receiver has seen;
\* get() uses borrow(), which never advances it
reload_rx_clone == [kind |-> "receiver", seen |-> 0, first |-> FALSE,
                    ended |-> FALSE, idx |-> 0, val |-> NoValue]

\* WatchStream::new(self.reload_rx.clone()): first poll is ready at once
WatchStream_new(rx) == [rx EXCEPT !.kind = "stream", !.first = TRUE]

\* faulty variant, for comparison: a queue in place of the watch cell, handing out publishes one by one
borrow_queued(c, rx) ==
    LET n == IF rx.seen < c.version THEN rx.seen + 1 ELSE c.version
    IN  [rx EXCEPT !.seen = n, !.first = FALSE,
                   !.idx = n + 1, !.val = log[n + 1]]

\* rx.borrow_and_update(): read the cell and mark its version seen
borrow_and_update(c, rx) ==
    [rx EXCEPT !.seen = c.version, !.first = FALSE,
               !.idx = c.version + 1, !.val = c.value]

\* rx.changed(): Ok when an unseen version exists, Err when the sender is gone
has_changed(c, rx) == rx.seen # c.version

\* ------------------------------------ source adapters: values and readers

\* the bytes a document is made of: a JSON digit, JSON whitespace, a letter,
\* and a byte that no UTF-8 text contains
Bytes == {"1", " ", "x", "FF"}

\* U+FFFD, which a lossy conversion to text puts in the place of such a byte
Replacement == "FFFD"

ByteSeqs == UNION {[1..n -> Bytes] : n \in 0..MaxFileLen}

\* the inner reader-loadable types followed
Readers == {"Vec<u8>", "String", "JsonOf"}

\* the two source adapters
Sources == {"PathTo", "HttpGet"}

\* strings a user can hand to from_str
Strings == {"p", "http://h", "http://h/"}

\* response statuses of the endpoint
Statuses == {200, 404}

NoData == [none |-> TRUE]
NoLoadResult == [ok |-> FALSE, loc |-> "none", data |-> NoData, err |-> "none"]
NoLoad == [src |-> "none", T |-> "none", s |-> "none", pc |-> "none",
           loc |-> "none", opens |-> 0, requests |-> 0, decodes |-> 0,
           fileOpen |-> FALSE, reader |-> << >>, pos |-> 0,
           data |-> NoData, result |-> NoLoadResult]
NoStore == [exists |-> FALSE, readable |-> FALSE, bytes |-> << >>, status |-> 0]

\* s.parse::<Url>(): an absolute URL is required, and an empty path becomes "/"
Url_parse(s) ==
    CASE s = "http://h" -> [ok |-> TRUE, url |-> "http://h/"]
      [] s = "http://h/" -> [ok |-> TRUE, url |-> "http://h/"]
      [] OTHER -> [ok |-> FALSE, url |-> "none"]

\* what is left to read after position pos
Remaining(bytes, pos) == SubSeq(bytes, pos + 1, Len(bytes))

\* faulty variant, for comparison: one read call, which hands back one byte, is taken for the whole
read_to_end_once(bytes, pos) ==
    IF pos < Len(bytes) THEN <<bytes[pos + 1]>> ELSE << >>

\* reader.read_to_end(&mut buffer): everything from the position to the end
read_to_end(bytes, pos) == Remaining(bytes, pos)

\* Vec::<u8>::from_reader
Vec_from_reader(bytes, pos) ==
    [ok |-> TRUE, data |-> [bytes |-> read_to_end(bytes, pos)],
     read |-> Len(bytes)]

\* String::from_reader: read_to_string reads to the end and rejects what is not UTF-8
String_from_reader(bytes, pos) ==
    LET buffer == read_to_end(bytes, pos)
    IN  IF \E i \in 1..Len(buffer) : buffer[i] = "FF"
        THEN [ok |-> FALSE, data |-> NoData, read |-> Len(bytes)]
        ELSE [ok |-> TRUE, data |-> [string |-> buffer], read |-> Len(bytes)]

\* serde_json::from_reader over the bytes from position i on: whitespace, one
\* number, whitespace, end of input; st is "lead", "num" or "trail" and acc the
\* number read so far
RECURSIVE json_scan(_, _, _, _)
json_scan(bytes, i, st, acc) ==
    IF i > Len(bytes)
    THEN IF st = "lead"
         THEN [ok |-> FALSE, data |-> NoData, read |-> Len(bytes)]
         ELSE [ok |-> TRUE, data |-> [json |-> acc], read |-> Len(bytes)]
    ELSE LET b == bytes[i]
         IN  CASE b = " " ->
                    json_scan(bytes, i + 1, IF st = "lead" THEN "lead" ELSE "trail", acc)
               [] b = "1" /\ st # "trail" ->
                    json_scan(bytes, i + 1, "num", acc * 10 + 1)
               [] OTHER -> [ok |-> FALSE, data |-> NoData, read |-> i]

\* JsonOf::<T>::from_reader
JsonOf_from_reader(bytes, pos) == json_scan(bytes, pos + 1, "lead", 0)

\* T::from_reader(&mut reader) for the type T of the field; a reader whose
\* source fails while it is read returns the I/O error through T::Error
T_from_reader(T, bytes, pos, readable) ==
    IF ~readable
    THEN [ok |-> FALSE, data |-> NoData, read |-> pos]
    ELSE CASE T = "Vec<u8>" -> Vec_from_reader(bytes, pos)
           [] T = "String" -> String_from_reader(bytes, pos)
           [] OTHER -> JsonOf_from_reader(bytes, pos)

\* serde_json::to_string of a number: its decimal digits
RECURSIVE serde_json_to_string(_)
serde_json_to_string(n) ==
    IF n < 10 THEN <<"1">> ELSE Append(serde_json_to_string(n \div 10), "1")

\* res.text(): the body as text, bytes that are not UTF-8 replaced
Response_text(body) ==
    [i \in 1..Len(body) |-> IF body[i] = "FF" THEN Replacement ELSE body[i]]

\* ------------------------------------------------------------- initial
Init ==
    /\ kind \in {"Reloading", "Periodic"}
    /\ arg \in Paths
    /\ fs \in {f \in [Paths -> FileStates] : \A p \in Paths \ {arg} : f[p] = "v1"}
    /\ writes = 0
    /\ pending = FALSE
    /\ status = "unbuilt"
    /\ ch = NoChannel
    /\ log = << >>
    /\ clones = 0
    /\ handles = 0
    /\ watcher = "none"
    /\ triggers = 0
    /\ pc = "none"
    /\ loaded = NoResult
    /\ lastLog = "none"
    /\ subs = [s \in Subs |-> NoSub]
    /\ ld = NoLoad
    /\ store = NoStore
    /\ orphanedAt = -1
    /\ unwatched = FALSE

\* --------------------------------------------------------- environment

\* another process writes, replaces or removes the file the argument names
Write(c) ==
    /\ writes < MaxWrites
    /\ fs' = [fs EXCEPT ![path] = c]
    /\ writes' = writes + 1
    /\ pending' = (watcher = "active" \/ pending)
    /\ unwatched' = (status = "loaded" \/ unwatched)
    /\ UNCHANGED <<ld, store, orphanedAt, kind, arg, status, ch, log, clones, handles, watcher,
                   triggers, pc, loaded, lastLog, subs>>

\* -------------------------------------------------------- construction

\* from_str, first half: the initial PathTo load and the channel
FromStr_Load ==
    /\ status = "unbuilt"
    /\ LET path_to == PathTo_from_str(arg, fs)
       IN  IF path_to.ok
           THEN /\ status' = "loaded"
                /\ ch' = watch_channel(path_to.value)
                /\ log' = <<path_to.value>>
           ELSE /\ status' = path_to.err
                /\ UNCHANGED <<ch, log>>
    /\ UNCHANGED <<ld, store, unwatched, orphanedAt, kind, arg, fs, writes, pending, clones, handles, watcher,
                   triggers, pc, loaded, lastLog, subs>>

\* faulty variant, for comparison: a failed watcher.watch leaves the watcher it was called on running
Reloading_FromStr_Watch_Leak(outcome) ==
    /\ kind = "Reloading"
    /\ status = "loaded"
    /\ status' = outcome
    /\ watcher' = "active"
    /\ triggers' = triggers + 1
    /\ pc' = "Idle"
    /\ IF outcome = "ok"
       THEN clones' = 1 /\ handles' = 1
       ELSE UNCHANGED <<clones, handles>>
    /\ UNCHANGED <<ld, store, unwatched, orphanedAt, kind, arg, fs, writes, pending, ch, log, loaded, lastLog, subs>>

\* Reloading::from_str, second half: recommended_watcher(..)? and
\* watcher.watch(..)?; on either error the function returns and its locals
\* (channel, watcher) are dropped
Reloading_FromStr_Watch(outcome) ==
    /\ kind = "Reloading"
    /\ status = "loaded"
    /\ IF outcome = "ok"
       THEN /\ status' = "ok"
            /\ watcher' = "active"
            /\ triggers' = triggers + 1
            /\ pc' = "Idle"
            /\ clones' = 1
            /\ handles' = 1
            /\ UNCHANGED <<ch, log>>
       ELSE /\ status' = outcome
            /\ ch' = NoChannel
            /\ log' = << >>
            /\ UNCHANGED <<watcher, triggers, pc, clones, handles>>
    /\ UNCHANGED <<ld, store, unwatched, orphanedAt, kind, arg, fs, writes, pending, loaded, lastLog, subs>>

\* Periodic::from_str, second half: tokio::spawn of the timer task
Periodic_FromStr_Spawn ==
    /\ kind = "Periodic"
    /\ status = "loaded"
    /\ status' = "ok"
    /\ triggers' = triggers + 1
    /\ pc' = "Attempt"
    /\ clones' = 1
    /\ handles' = 1
    /\ UNCHANGED <<ld, store, unwatched, orphanedAt, kind, arg, fs, writes, pending, ch, log, watcher, loaded,
                   lastLog, subs>>

\* ------------------------------------------------------ live-value handles

\* faulty variant, for comparison: a clone sets up a trigger of its own
CloneHandle_Respawn ==
    /\ status = "ok"
    /\ handles > 0
    /\ clones < MaxClones
    /\ clones' = clones + 1
    /\ handles' = handles + 1
    /\ triggers' = triggers + 1
    /\ UNCHANGED <<ld, store, unwatched, orphanedAt, kind, arg, fs, writes, pending, status,
                   ch, log, watcher, pc, loaded, lastLog, subs>>

\* #[derive(Clone)]: the clone shares the channel and, for Reloading, the Arc'd watcher
CloneHandle ==
    /\ status = "ok"
    /\ handles > 0
    /\ clones < MaxClones
    /\ clones' = clones + 1
    /\ handles' = handles + 1
    /\ UNCHANGED <<ld, store, unwatched, orphanedAt, kind, arg, fs, writes, pending, status, ch, log, watcher,
                   triggers, pc, loaded, lastLog, subs>>

\* faulty variant, for comparison: every handle owns the watcher, so any drop stops it
arc_drop_unshared(w, n) == "stopping"

\* what dropping one handle does to the watcher: the Arc releases it with the last handle
arc_drop(w, n) == IF n = 1 THEN "stopping" ELSE w

\* drop of a Reloading handle
Reloading_DropHandle ==
    /\ kind = "Reloading"
    /\ status = "ok"
    /\ handles > 0
    /\ handles' = handles - 1
    /\ watcher' = arc_drop(watcher, handles)
    /\ UNCHANGED <<ld, store, unwatched, orphanedAt, kind, arg, fs, writes, pending, status, ch, log, clones,
                   triggers, pc, loaded, lastLog, subs>>

\* the watcher's Drop stops the backend thread once the callback in flight
\* has returned, and then releases the callback together with reload_tx
Reloading_WatcherStopped ==
    /\ kind = "Reloading"
    /\ watcher = "stopping"
    /\ pc = "Idle"
    /\ watcher' = "dropped"
    /\ pc' = "none"
    /\ pending' = FALSE
    /\ ch' = drop_watcher(ch)
    /\ UNCHANGED <<ld, store, unwatched, orphanedAt, kind, arg, fs, writes, status, log, clones, handles,
                   triggers, loaded, lastLog, subs>>

\* drop of a Periodic handle: the struct holds only reload_rx and a PhantomData
Periodic_DropHandle ==
    /\ kind = "Periodic"
    /\ status = "ok"
    /\ handles > 0
    /\ handles' = handles - 1
    /\ UNCHANGED <<ld, store, unwatched, orphanedAt, kind, arg, fs, writes, pending, status, ch, log, clones,
                   watcher, triggers, pc, loaded, lastLog, subs>>

\* ------------------------------------------- Reloading: watcher callback

\* faulty variant, for comparison: an error from the watcher is logged and the reload skipped
Reloading_Deliver_Skip(result) ==
    /\ kind = "Reloading"
    /\ watcher = "active"
    /\ pc = "Idle"
    /\ ch.version < MaxPublish
    /\ pc' = IF result = "error" THEN "Idle" ELSE "TriggerReceived"
    /\ lastLog' = IF result = "error" THEN "warn" ELSE "none"
    /\ pending' = (pending /\ result # "event")
    /\ UNCHANGED <<ld, store, unwatched, orphanedAt, kind, arg, fs, writes, status, ch, log,
                   clones, handles, watcher, triggers, loaded, subs>>

\* the backend invokes the callback with an event or with an error
Reloading_Deliver(result) ==
    /\ kind = "Reloading"
    /\ watcher = "active"
    /\ pc = "Idle"
    /\ ch.version < MaxPublish
    /\ pc' = "TriggerReceived"
    /\ lastLog' = IF result = "error" THEN "warn" ELSE "none"
    /\ pending' = (pending /\ result # "event")
    /\ UNCHANGED <<ld, store, unwatched, orphanedAt, kind, arg, fs, writes, status, ch, log, clones, handles,
                   watcher, triggers, loaded, subs>>

\* faulty variant, for comparison: the callback republishes the data it holds in place of reading the file
Reloading_Load_Cached ==
    /\ kind = "Reloading"
    /\ pc = "TriggerReceived"
    /\ pc' = "Loading"
    /\ loaded' = [ok |-> TRUE, data |-> ch.value.data, err |-> "none"]
    /\ unwatched' = FALSE
    /\ UNCHANGED <<ld, store, orphanedAt, kind, arg, fs, writes, pending, status,
                   ch, log, clones, handles, watcher, triggers, lastLog, subs>>

\* re-open the file and read it into the typed format
Reloading_Load ==
    /\ kind = "Reloading"
    /\ pc = "TriggerReceived"
    /\ pc' = "Loading"
    /\ loaded' = data_result(path, fs)
    /\ unwatched' = FALSE
    /\ UNCHANGED <<ld, store, orphanedAt, kind, arg, fs, writes, pending, status, ch, log, clones,
                   handles, watcher, triggers, lastLog, subs>>

\* Ok arm: build updated_path_to and send_replace it
Reloading_Publish ==
    /\ kind = "Reloading"
    /\ pc = "Loading"
    /\ is_Ok(loaded)
    /\ LET v == updated_path_to(path, loaded.data)
       IN  /\ ch' = send_replace(ch, v)
           /\ log' = Append(log, v)
    /\ pc' = "Published"
    /\ UNCHANGED <<ld, store, unwatched, orphanedAt, kind, arg, fs, writes, pending, status, clones, handles,
                   watcher, triggers, loaded, lastLog, subs>>

\* Err arm: tracing::error! and return
Reloading_LoadFailed ==
    /\ kind = "Reloading"
    /\ pc = "Loading"
    /\ ~is_Ok(loaded)
    /\ ch' = on_load_error(ch)
    /\ lastLog' = "error"
    /\ pc' = "LoadFailed"
    /\ UNCHANGED <<ld, store, unwatched, orphanedAt, kind, arg, fs, writes, pending, status, log, clones,
                   handles, watcher, triggers, loaded, subs>>

\* faulty variant, for comparison: a failed load is retried within the same callback invocation
Reloading_Return_Retry ==
    /\ kind = "Reloading"
    /\ pc \in {"Published", "LoadFailed"}
    /\ pc' = IF pc = "LoadFailed" THEN "TriggerReceived" ELSE "Idle"
    /\ loaded' = NoResult
    /\ lastLog' = "none"
    /\ UNCHANGED <<ld, store, unwatched, orphanedAt, kind, arg, fs, writes, pending, status,
                   ch, log, clones, handles, watcher, triggers, subs>>

\* the callback returns to the backend
Reloading_Return ==
    /\ kind = "Reloading"
    /\ pc \in {"Published", "LoadFailed"}
    /\ pc' = "Idle"
    /\ loaded' = NoResult
    /\ lastLog' = "none"
    /\ UNCHANGED <<ld, store, unwatched, orphanedAt, kind, arg, fs, writes, pending, status, ch, log, clones,
                   handles, watcher, triggers, subs>>

\* ------------------------------------------------ Periodic: timer task

\* where the loop goes after the Err arm: `continue` re-enters the loop body
after_error == "Attempt"

\* top of the loop: compute data_result
Periodic_Load ==
    /\ kind = "Periodic"
    /\ pc = "Attempt"
    /\ ch.version < MaxPublish
    /\ pc' = "Loading"
    /\ loaded' = data_result(path, fs)
    /\ lastLog' = "none"
    /\ unwatched' = FALSE
    /\ UNCHANGED <<ld, store, orphanedAt, kind, arg, fs, writes, pending, status, ch, log, clones,
                   handles, watcher, triggers, subs>>

\* Ok arm: send_replace, then tokio::time::sleep(P::PERIOD)
Periodic_Publish ==
    /\ kind = "Periodic"
    /\ pc = "Loading"
    /\ is_Ok(loaded)
    /\ LET v == updated_path_to(path, loaded.data)
       IN  /\ ch' = send_replace(ch, v)
           /\ log' = Append(log, v)
    /\ pc' = "Sleeping"
    /\ loaded' = NoResult
    /\ UNCHANGED <<ld, store, unwatched, orphanedAt, kind, arg, fs, writes, pending, status, clones, handles,
                   watcher, triggers, lastLog, subs>>

\* Err arm: tracing::error! and continue
Periodic_LoadFailed ==
    /\ kind = "Periodic"
    /\ pc = "Loading"
    /\ ~is_Ok(loaded)
    /\ ch' = on_load_error(ch)
    /\ lastLog' = "error"
    /\ pc' = after_error
    /\ loaded' = NoResult
    /\ UNCHANGED <<ld, store, unwatched, orphanedAt, kind, arg, fs, writes, pending, status, log, clones,
                   handles, watcher, triggers, subs>>

\* the sleep elapses and the loop starts over
Periodic_Wake ==
    /\ kind = "Periodic"
    /\ pc = "Sleeping"
    /\ pc' = "Attempt"
    /\ UNCHANGED <<ld, store, unwatched, orphanedAt, kind, arg, fs, writes, pending, status, ch, log, clones,
                   handles, watcher, triggers, loaded, lastLog, subs>>

\* ---------------------------------------------------------- subscribers

\* the application keeps what it acquires in the first slot that is free
FreeSlot(s) ==
    /\ subs[s].kind = "none"
    /\ \A t \in Subs : t < s => subs[t].kind # "none"

\* receiver(): a clone of the live value's reload_rx
Receiver(s) ==
    /\ status = "ok"
    /\ handles > 0
    /\ FreeSlot(s)
    /\ subs' = [subs EXCEPT ![s] = reload_rx_clone]
    /\ orphanedAt' = -1
    /\ UNCHANGED <<ld, store, unwatched, kind, arg, fs, writes, pending, status, ch, log, clones,
                   handles, watcher, triggers, pc, loaded, lastLog>>

\* stream(): a WatchStream over a clone of reload_rx
Stream(s) ==
    /\ status = "ok"
    /\ handles > 0
    /\ FreeSlot(s)
    /\ subs' = [subs EXCEPT ![s] = WatchStream_new(reload_rx_clone)]
    /\ orphanedAt' = -1
    /\ UNCHANGED <<ld, store, unwatched, kind, arg, fs, writes, pending, status, ch, log, clones,
                   handles, watcher, triggers, pc, loaded, lastLog>>

\* a receiver handle awaits changed() and then reads the cell with
\* borrow_and_update(); Err from changed() ends it
RecvChanged(s) ==
    /\ subs[s].kind = "receiver"
    /\ ~subs[s].ended
    /\ IF has_changed(ch, subs[s])
       THEN subs' = [subs EXCEPT ![s] = borrow_and_update(ch, subs[s])]
       ELSE /\ ch.closed
            /\ subs' = [subs EXCEPT ![s].ended = TRUE]
    /\ UNCHANGED <<ld, store, unwatched, orphanedAt, kind, arg, fs, writes, pending, status, ch, log, clones,
                   handles, watcher, triggers, pc, loaded, lastLog>>

\* faulty variant, for comparison: the stream starts by awaiting changed(), as a bare receiver would
StreamPoll_Waits(s) ==
    /\ subs[s].kind = "stream"
    /\ ~subs[s].ended
    /\ IF has_changed(ch, subs[s])
       THEN subs' = [subs EXCEPT ![s] = borrow_and_update(ch, subs[s])]
       ELSE /\ ch.closed
            /\ subs' = [subs EXCEPT ![s].ended = TRUE]
    /\ UNCHANGED <<ld, store, unwatched, orphanedAt, kind, arg, fs, writes, pending,
                   status, ch, log, clones, handles, watcher, triggers, pc,
                   loaded, lastLog>>

\* WatchStream::poll_next: the first poll and every completed changed() yield
\* the cell; Err from changed() ends the stream; otherwise the poll is pending
StreamPoll(s) ==
    /\ subs[s].kind = "stream"
    /\ ~subs[s].ended
    /\ IF subs[s].first \/ has_changed(ch, subs[s])
       THEN subs' = [subs EXCEPT ![s] = borrow_and_update(ch, subs[s])]
       ELSE /\ ch.closed
            /\ subs' = [subs EXCEPT ![s].ended = TRUE]
    /\ UNCHANGED <<ld, store, unwatched, orphanedAt, kind, arg, fs, writes, pending, status, ch, log, clones,
                   handles, watcher, triggers, pc, loaded, lastLog>>

\* faulty variant, for comparison: the trigger gives up once nobody is subscribed
DropSub_StopsProducer(s) ==
    /\ subs[s].kind # "none"
    /\ subs' = [subs EXCEPT ![s] = NoSub]
    /\ orphanedAt' = IF \A t \in Subs \ {s} : subs[t].kind = "none"
                     THEN ch.version ELSE orphanedAt
    /\ pc' = IF \A t \in Subs \ {s} : subs[t].kind = "none" THEN "none" ELSE pc
    /\ UNCHANGED <<ld, store, unwatched, kind, arg, fs, writes, pending, status, ch, log,
                   clones, handles, watcher, triggers, loaded, lastLog>>

\* the application drops a receiver handle or a stream
DropSub(s) ==
    /\ subs[s].kind # "none"
    /\ subs' = [subs EXCEPT ![s] = NoSub]
    /\ orphanedAt' = IF \A t \in Subs \ {s} : subs[t].kind = "none"
                     THEN ch.version ELSE orphanedAt
    /\ UNCHANGED <<ld, store, unwatched, kind, arg, fs, writes, pending, status, ch, log, clones,
                   handles, watcher, triggers, pc, loaded, lastLog>>

\* ------------------------------------------------------- specification

\* the steps the backend thread and the tokio runtime take on their own
TriggerProgress ==
    \/ Reloading_Load
    \/ Reloading_Publish
    \/ Reloading_LoadFailed
    \/ Reloading_Return
    \/ Reloading_WatcherStopped
    \/ Periodic_Load
    \/ Periodic_Publish
    \/ Periodic_LoadFailed
    \/ Periodic_Wake

Next ==
    \/ \E c \in FileStates : Write(c)
    \/ FromStr_Load
    \/ \E outcome \in {"ok", "watcher-failed", "watch-failed"} :
           Reloading_FromStr_Watch(outcome)
    \/ Periodic_FromStr_Spawn
    \/ CloneHandle
    \/ Reloading_DropHandle
    \/ Periodic_DropHandle
    \/ \E result \in {"event", "error"} : Reloading_Deliver(result)
    \/ TriggerProgress
    \/ \E s \in Subs : Receiver(s)
    \/ \E s \in Subs : Stream(s)
    \/ \E s \in Subs : RecvChanged(s)
    \/ \E s \in Subs : StreamPoll(s)
    \/ \E s \in Subs : DropSub(s)

Spec == Init /\ [][Next]_vars

\* the two paths are interchangeable: liveness is followed for one of them
LiveInit == Init /\ arg = "p"

\* a callback or a timer task that has a step to take takes it, and consumers
\* keep polling the streams and awaiting the receivers they hold; the backend
\* is not required to deliver events
LiveSpec ==
    /\ LiveInit
    /\ [][Next]_vars
    /\ WF_vars(TriggerProgress)
    /\ \A s \in Subs : WF_vars(StreamPoll(s))
    /\ \A s \in Subs : WF_vars(RecvChanged(s))

\* --------------------------------------- source adapters, step by step

\* the live-value variables, which a source adapter's from_str does not touch
live == <<kind, arg, fs, writes, pending, status, ch, log, clones, handles,
          watcher, triggers, pc, loaded, lastLog, subs, orphanedAt, unwatched>>

\* faulty variant, for comparison: the error return forgets the file it had opened
load_failed_leak(l, e) ==
    [l EXCEPT !.pc = "done",
              !.result = [ok |-> FALSE, loc |-> "none", data |-> NoData, err |-> e]]

\* from_str returns Err(e) through `?`: its locals are dropped, and with the
\* reader the file it owns is closed
load_failed(l, e) ==
    [l EXCEPT !.pc = "done", !.fileOpen = FALSE,
              !.result = [ok |-> FALSE, loc |-> "none", data |-> NoData, err |-> e]]

\* PathTo::from_str: PathBuf::from(s) and File::open(&path)?
PathTo_Open ==
    /\ ld.src = "PathTo"
    /\ ld.pc = "start"
    /\ LET l == [ld EXCEPT !.loc = PathBuf_from(ld.s), !.opens = @ + 1]
       IN  IF store.exists
           THEN ld' = [l EXCEPT !.pc = "opened", !.fileOpen = TRUE,
                                !.reader = store.bytes, !.pos = 0]
           ELSE ld' = load_failed(l, "open")
    /\ UNCHANGED <<store, live>>

\* PathTo::from_str: BufReader::new(file) and T::from_reader(&mut reader)?
PathTo_Decode ==
    /\ ld.src = "PathTo"
    /\ ld.pc = "opened"
    /\ LET r == T_from_reader(ld.T, ld.reader, ld.pos, store.readable)
           l == [ld EXCEPT !.decodes = @ + 1, !.pos = r.read]
       IN  IF r.ok
           THEN ld' = [l EXCEPT !.pc = "decoded", !.data = r.data]
           ELSE ld' = load_failed(l, "decode")
    /\ UNCHANGED <<store, live>>

\* PathTo::from_str: Ok(PathTo { path, data }); the reader goes out of scope
PathTo_Return ==
    /\ ld.src = "PathTo"
    /\ ld.pc = "decoded"
    /\ ld' = [ld EXCEPT !.pc = "done", !.fileOpen = FALSE,
                        !.result = [ok |-> TRUE, loc |-> ld.loc,
                                    data |-> ld.data, err |-> "none"]]
    /\ UNCHANGED <<store, live>>

\* HttpGet::from_str: s.parse::<Url>()?
HttpGet_Parse ==
    /\ ld.src = "HttpGet"
    /\ ld.pc = "start"
    /\ LET u == Url_parse(ld.s)
       IN  IF u.ok
           THEN ld' = [ld EXCEPT !.pc = "parsed", !.loc = u.url]
           ELSE ld' = load_failed(ld, "url-parse")
    /\ UNCHANGED <<store, live>>

\* HttpGet::from_str: Client::new().get(url).header(..).send()?; send returns
\* Ok for every response received, whatever its status
HttpGet_Send ==
    /\ ld.src = "HttpGet"
    /\ ld.pc = "parsed"
    /\ LET l == [ld EXCEPT !.requests = @ + 1]
       IN  IF store.exists
           THEN ld' = [l EXCEPT !.pc = "responded"]
           ELSE ld' = load_failed(l, "request")
    /\ UNCHANGED <<store, live>>

\* HttpGet::from_str: res.text()? and Cursor::new(text)
HttpGet_Text ==
    /\ ld.src = "HttpGet"
    /\ ld.pc = "responded"
    /\ IF store.readable
       THEN ld' = [ld EXCEPT !.pc = "text", !.reader = Response_text(store.bytes),
                             !.pos = 0]
       ELSE ld' = load_failed(ld, "request")
    /\ UNCHANGED <<store, live>>

\* HttpGet::from_str: T::from_reader(&mut reader)? and Ok(HttpGet { url, data })
HttpGet_Decode ==
    /\ ld.src = "HttpGet"
    /\ ld.pc = "text"
    /\ LET r == T_from_reader(ld.T, ld.reader, ld.pos, TRUE)
           l == [ld EXCEPT !.decodes = @ + 1, !.pos = r.read]
       IN  IF r.ok
           THEN ld' = [l EXCEPT !.pc = "done", !.data = r.data,
                                !.result = [ok |-> TRUE, loc |-> ld.loc,
                                            data |-> r.data, err |-> "none"]]
           ELSE ld' = load_failed(l, "decode")
    /\ UNCHANGED <<store, live>>

\* a from_str call about to start: the adapter chain of the field, the string
\* given, and what the location holds
LoadInit ==
    /\ kind = "Reloading"
    /\ arg = "p"
    /\ fs = [p \in Paths |-> "v1"]
    /\ writes = 0
    /\ pending = FALSE
    /\ status = "unbuilt"
    /\ ch = NoChannel
    /\ log = << >>
    /\ clones = 0
    /\ handles = 0
    /\ watcher = "none"
    /\ triggers = 0
    /\ pc = "none"
    /\ loaded = NoResult
    /\ lastLog = "none"
    /\ subs = [s \in Subs |-> NoSub]
    /\ orphanedAt = -1
    /\ unwatched = FALSE
    /\ \E src \in Sources, T \in Readers, s \in Strings :
          ld = [NoLoad EXCEPT !.src = src, !.T = T, !.s = s, !.pc = "start"]
    /\ \E e, r \in BOOLEAN, b \in ByteSeqs, st \in Statuses :
          /\ ld.src = "PathTo" => st = 200
          /\ ~e => (b = << >> /\ r /\ st = 200)
          /\ store = [exists |-> e, readable |-> r, bytes |-> b,
                      status |-> IF ld.src = "HttpGet" /\ e THEN st ELSE 0]

LoadNext ==
    \/ PathTo_Open
    \/ PathTo_Decode
    \/ PathTo_Return
    \/ HttpGet_Parse
    \/ HttpGet_Send
    \/ HttpGet_Text
    \/ HttpGet_Decode

LoadSpec == LoadInit /\ [][LoadNext]_vars

\* ------------------------------------------------------------ properties

\* the located values a successful PathTo load can produce
SuccessfulLoads ==
    {[path |-> PathBuf_from(s), data |-> from_reader(c).data] :
        s \in Paths, c \in {x \in Contents : from_reader(x).ok}}

\* C1: for both adapters, once construction has loaded the file, the current
\* cell, every value ever published and every value a subscriber has obtained
\* is the product of a successful load; no open or decode failure is visible.
C1_CellAlwaysValid ==
    status \in {"loaded", "ok"} =>
        /\ get \in SuccessfulLoads
        /\ \A i \in 1..Len(log) : log[i] \in SuccessfulLoads
        /\ \A s \in Subs : subs[s].idx # 0 => subs[s].val \in SuccessfulLoads

\* C1 case: a reload has failed after a successful one and a subscriber has
\* obtained a published value
C1_Witness ==
    /\ status = "ok"
    /\ lastLog = "error"
    /\ ch.version >= 1
    /\ \E s \in Subs : subs[s].idx >= 2

\* C2: a step taken while a failed load attempt is being handled leaves the
\* cell, its version (the subscribers' notification) and the publish order
\* unchanged, and the attempt ends without a publish.
C2_FailedReloadLeavesCell ==
    [][(pc = "Loading" /\ ~loaded.ok) =>
          /\ ch' = ch
          /\ log' = log
          /\ pc' \in {"Loading", "LoadFailed", "Attempt"}]_vars

\* C2 case: a reload failed after an earlier successful reload, with a stream
\* that had already been given the value then current
C2_Witness ==
    /\ pc = "LoadFailed"
    /\ ch.version >= 1
    /\ \E s \in Subs : subs[s].kind = "stream" /\ subs[s].idx = ch.version + 1

\* C3: once every clone of a Periodic value is dropped, the timer task does
\* not resume its loop from the sleep it is in.
C3_TimerCancelledOnDrop ==
    [][(kind = "Periodic" /\ status = "ok" /\ handles = 0 /\ pc = "Sleeping")
          => pc' = "Sleeping"]_vars

\* C4: the clones of a Reloading value share one watcher, which is active
\* exactly while a clone is left; once the watcher is dropped no load attempt
\* and no publish happens.
C4_SharedWatcher ==
    /\ []((kind = "Reloading" /\ status = "ok") =>
            /\ triggers = 1
            /\ (handles > 0 <=> watcher = "active"))
    /\ [][(kind = "Reloading" /\ watcher = "dropped") =>
            /\ ch' = ch
            /\ log' = log
            /\ pc' = pc
            /\ loaded' = loaded]_vars

\* C4 case: a clone that was not the last was dropped, reloads went on, and
\* then the last clone was dropped and the watcher stopped
C4_Witness ==
    /\ kind = "Reloading"
    /\ watcher = "dropped"
    /\ clones >= 2
    /\ ch.version >= 1

\* C5: for Reloading, the watcher's drop closes the channel, and every stream
\* or receiver handle still held when the last clone is dropped comes to its
\* end (or is dropped by its owner).
C5_ReloadingStreamsTerminate ==
    /\ []((kind = "Reloading" /\ watcher = "dropped") => ch.closed)
    /\ \A s \in Subs :
         (kind = "Reloading" /\ status = "ok" /\ handles = 0
             /\ subs[s].kind # "none")
           ~> (subs[s].kind = "none" \/ subs[s].ended)

\* C5 case: a stream that was given a reloaded value has terminated after the
\* last clone was dropped
C5_Witness ==
    /\ kind = "Reloading"
    /\ watcher = "dropped"
    /\ \E s \in Subs :
         subs[s].kind = "stream" /\ subs[s].ended /\ subs[s].idx >= 2

\* C6: for Periodic, every stream still held when the last clone is dropped
\* comes to its end (or is dropped by its owner), within the publishes the
\* model follows.
C6_PeriodicStreamsTerminate ==
    \A s \in Subs :
        (kind = "Periodic" /\ status = "ok" /\ handles = 0
            /\ subs[s].kind = "stream")
          ~> (subs[s].kind # "stream" \/ subs[s].ended
                \/ ch.version >= MaxPublish)

\* the errors from_str can return
ConstructionErrors == {"open", "decode", "watcher-failed", "watch-failed"}

\* C7: from_str is all-or-nothing: before it has succeeded, and after it has
\* failed, no trigger runs, no handle exists and no subscriber can exist;
\* after it has succeeded the cell holds a loaded value, one trigger has been
\* started, and it runs while a handle is held.
C7_ConstructionAllOrNothing ==
    /\ status \in ConstructionErrors \cup {"unbuilt", "loaded"} =>
          /\ triggers = 0
          /\ watcher = "none"
          /\ pc = "none"
          /\ handles = 0
          /\ \A s \in Subs : subs[s].kind = "none"
    /\ status \in ConstructionErrors => ch = NoChannel
    /\ status = "ok" =>
          /\ get \in SuccessfulLoads
          /\ triggers = 1
          /\ handles > 0 => pc # "none"
          /\ (handles > 0 /\ kind = "Reloading") => watcher = "active"

\* C7 case: the initial load succeeded and registering the watch then failed
C7_Witness ==
    /\ kind = "Reloading"
    /\ status = "watch-failed"

\* C8: while the file has not been written since, get on a constructed value
\* returns what a direct PathTo::from_str of the same string returns.
C8_InitialLoadTotal ==
    (status = "ok" /\ writes = 0) =>
        LET direct == PathTo_from_str(arg, fs)
        IN  direct.ok /\ get = direct.value

\* C8 case: construction has just returned: nothing published yet, file untouched
C8_Witness ==
    /\ status = "ok"
    /\ writes = 0
    /\ ch.version = 0
    /\ pc \in {"Idle", "Attempt"}

\* C9: what one subscriber obtains is a value of the publish order, at a
\* position that never moves backwards.
C9_SubscriberOrder ==
    [][\A s \in Subs :
          (subs[s].kind # "none" /\ subs'[s].kind = subs[s].kind) =>
              /\ subs'[s].idx >= subs[s].idx
              /\ subs'[s].idx # 0 =>
                    /\ subs'[s].idx <= Len(log')
                    /\ subs'[s].val = log'[subs'[s].idx]]_vars

\* C9 case: a subscriber has obtained a later publish whose value differs
\* from the initial one
C9_Witness ==
    \E s \in Subs :
        /\ subs[s].idx >= 3
        /\ subs[s].val # log[1]

\* C10: whenever a subscriber obtains a value it is the cell's current value
\* and the subscriber is marked as having seen the latest version, whatever it
\* had seen before; and a step of one subscriber changes no other subscriber.
C10_LossyLatest ==
    [][\A s \in Subs :
          /\ (subs'[s].kind # "none" /\ subs'[s].idx # subs[s].idx) =>
                /\ ch' = ch
                /\ subs'[s].val = get
                /\ subs'[s].seen = ch.version
          /\ subs'[s] # subs[s] =>
                \A t \in Subs \ {s} : subs'[t] = subs[t]]_vars

\* C10 case: one subscriber is up to date while another is two publishes
\* behind, so that its next value skips a publish
C10_Witness ==
    \E s, t \in Subs :
        /\ subs[s].kind # "none"
        /\ subs[t].kind # "none"
        /\ subs[s].idx = 1
        /\ subs[t].idx = ch.version + 1
        /\ ch.version >= 2

\* ------------------------------------------- properties: source adapters

\* a document with its whitespace removed
StripWs(bytes) == SelectSeq(bytes, LAMBDA b : b # " ")

\* the file the path names opens and its contents decode as the field's type
OpensAndDecodes ==
    /\ store.exists
    /\ T_from_reader(ld.T, store.bytes, 0, store.readable).ok

\* C13: PathTo::from_str(s) on a file that opens and decodes returns Ok with
\* path = s, has read the file to its end, and its data is the decode of the
\* whole contents: the bytes for Vec<u8>, the text for String, and for JsonOf
\* the value whose serialization is the document without its whitespace.
C13_PathLoadsFullContents ==
    (ld.src = "PathTo" /\ ld.pc = "done" /\ OpensAndDecodes) =>
        /\ ld.result.ok
        /\ ld.result.loc = ld.s
        /\ ld.pos = Len(store.bytes)
        /\ CASE ld.T = "Vec<u8>" -> ld.result.data = [bytes |-> store.bytes]
             [] ld.T = "String" -> ld.result.data = [string |-> store.bytes]
             [] OTHER ->
                  serde_json_to_string(ld.result.data.json) = StripWs(store.bytes)

\* C13 case: a JSON document of two bytes, one of them whitespace, was loaded
C13_Witness ==
    /\ ld.src = "PathTo"
    /\ ld.pc = "done"
    /\ ld.T = "JsonOf"
    /\ store.bytes = <<" ", "1">>
    /\ ld.result.ok

\* the status is one of the success class
Is2xx(st) == st \in 200..299

\* C14: for HttpGet, once the request has been answered with a status that
\* is not 2xx, the body is never handed to the decoder, and from_str ends in
\* a request-failed error without a value.
C14_Non2xxIsRequestFailed ==
    (ld.src = "HttpGet" /\ ld.requests = 1 /\ store.exists
        /\ ~Is2xx(store.status)) =>
        /\ ld.decodes = 0
        /\ ld.pc = "done" => (~ld.result.ok /\ ld.result.err = "request")

\* C15: a PathTo load opens the file once and runs the decoder at most once;
\* a failed open gives the open error without the decoder having run, a
\* failed decode gives the decode error, a failure carries no value, and the
\* file is closed when from_str has returned, Ok or Err.
C15_PathFailuresDistinct ==
    ld.src = "PathTo" =>
        /\ ld.opens <= 1
        /\ ld.decodes <= 1
        /\ ld.pc = "done" =>
             /\ ld.opens = 1
             /\ ~ld.fileOpen
             /\ ld.result.ok <=> OpensAndDecodes
             /\ ~store.exists =>
                   (ld.result.err = "open" /\ ld.decodes = 0)
             /\ (store.exists /\ ~OpensAndDecodes) =>
                   (ld.result.err = "decode" /\ ld.decodes = 1)
             /\ ~ld.result.ok =>
                   (ld.result.data = NoData /\ ld.result.loc = "none")

\* C15 case: the file opened and its contents did not decode
C15_Witness ==
    /\ ld.src = "PathTo"
    /\ ld.pc = "done"
    /\ ld.T = "JsonOf"
    /\ store.exists
    /\ store.bytes = <<"1", "x">>
    /\ ld.result.err = "decode"

\* ---------------------------------------------- properties: live values

\* C11: dropping a receiver handle or a stream changes nothing of the
\* producer (cell, publish order, trigger position, watcher, handles, file
\* events); whoever is or is not subscribed, a successful load is published as
\* the new cell, get returns the latest publish, and a subscriber that has not
\* read yet is ready to read the cell as soon as it is acquired (a stream) or
\* as soon as anything was published (a receiver).
C11_DropLeavesProducer ==
    /\ [][(\E s \in Subs : subs[s].kind # "none" /\ subs'[s].kind = "none") =>
            UNCHANGED <<fs, pending, status, ch, log, handles, watcher,
                        triggers, pc, loaded>>]_vars
    /\ [][(pc = "Loading" /\ loaded.ok /\ pc' # pc) =>
            /\ ch'.value = updated_path_to(path, loaded.data)
            /\ ch'.version = ch.version + 1
            /\ log' = Append(log, ch'.value)]_vars
    /\ [](status = "ok" => get = log[Len(log)])
    /\ [](\A s \in Subs :
            (subs[s].kind # "none" /\ subs[s].idx = 0 /\ ~subs[s].ended) =>
                /\ subs[s].kind = "stream" => subs[s].first
                /\ (subs[s].kind = "receiver" /\ ch.version >= 1) =>
                      has_changed(ch, subs[s]))

\* C11 case: every subscriber was dropped, and a reload published after that
\* has replaced the cell with a different value
C11_Witness ==
    /\ orphanedAt >= 0
    /\ \A s \in Subs : subs[s].kind = "none"
    /\ ch.version > orphanedAt
    /\ get = log[Len(log)]
    /\ get # log[orphanedAt + 1]

\* C12: every value the cell holds or has held carries the path parsed from
\* the string given at construction, and a publish puts a whole new located
\* value in the cell: that path with the data just loaded.
C12_LocationImmutable ==
    /\ [](status \in {"loaded", "ok"} =>
            /\ get.path = PathBuf_from(arg)
            /\ \A i \in 1..Len(log) : log[i].path = PathBuf_from(arg))
    /\ [][ch'.version # ch.version =>
            /\ ch'.value = [path |-> PathBuf_from(arg), data |-> loaded.data]
            /\ ch'.value.path = ch.value.path]_vars

\* C12 case: a reload has replaced the data of the initial value
C12_Witness ==
    /\ status = "ok"
    /\ ch.version >= 1
    /\ get.data # log[1].data
    /\ get.path = log[1].path

\* C16: every iteration of the timer task's loop ends in sleep(period): when
\* a load attempt is over, successful or failed, the task sleeps, so that no
\* attempt follows another without a full period in between.
C16_SleepAfterEveryAttempt ==
    [][(kind = "Periodic" /\ pc = "Loading" /\ pc' # pc) => pc' = "Sleeping"]_vars

\* the file will not be written again and what it holds decodes
StableDecodable == writes = MaxWrites /\ data_result(path, fs).ok

CallbackStates ==
    {"none", "Idle", "TriggerReceived", "Loading", "Published", "LoadFailed"}

\* C18: the watcher callback moves only along Idle -> TriggerReceived ->
\* Loading -> Published or LoadFailed -> Idle (entering Idle at construction
\* and leaving it for good when the watcher is dropped); Published is reached
\* only from Loading with a successful decode and LoadFailed only with a
\* failed one; the cell's version changes only on the step into Published;
\* and one load result at most exists, and only inside an invocation: a new
\* invocation starts only from Idle.
C18_CallbackCycle ==
    /\ [](kind = "Reloading" =>
            /\ pc \in CallbackStates
            /\ loaded # NoResult => pc \in {"Loading", "Published", "LoadFailed"})
    /\ [][(kind = "Reloading" /\ pc' # pc) =>
            \/ pc = "none" /\ pc' = "Idle"
            \/ pc = "Idle" /\ pc' \in {"TriggerReceived", "none"}
            \/ pc = "TriggerReceived" /\ pc' = "Loading"
            \/ pc = "Loading" /\ loaded.ok /\ pc' = "Published"
            \/ pc = "Loading" /\ ~loaded.ok /\ pc' = "LoadFailed"
            \/ pc \in {"Published", "LoadFailed"} /\ pc' = "Idle"]_vars
    /\ [][(kind = "Reloading" /\ ch'.version # ch.version) =>
            (pc = "Loading" /\ loaded.ok /\ pc' = "Published")]_vars

\* C18 case: an invocation has ended in LoadFailed after an earlier one had
\* published, while the backend holds a further event it has not delivered
C18_Witness ==
    /\ kind = "Reloading"
    /\ pc = "LoadFailed"
    /\ ch.version >= 1
    /\ pending

\* C19: a constructed live value has exactly one trigger and an unconstructed
\* one has none; the trigger count changes only on the step that completes
\* construction, so that no clone, receiver(), stream(), drop or poll starts
\* a watcher or a timer task.
C19_OneTrigger ==
    /\ [](triggers = IF status = "ok" THEN 1 ELSE 0)
    /\ [][triggers' # triggers =>
            (status = "loaded" /\ status' = "ok" /\ clones = 0 /\ clones' = 1)]_vars
    /\ [][(clones' > clones /\ clones >= 1) \/ subs' # subs =>
            (triggers' = triggers /\ pc' = pc /\ watcher' = watcher)]_vars

\* C19 case: the value was cloned and a receiver handle and a stream are
\* held, after reloads
C19_Witness ==
    /\ status = "ok"
    /\ clones >= 2
    /\ subs[1].kind = "receiver"
    /\ subs[2].kind = "stream"
    /\ ch.version >= 1
    /\ triggers = 1

\* the values placed in the cell so far
Published == {log[i] : i \in 1..Len(log)}

\* C20: the cell always holds one whole published value, the latest; a
\* publish takes it in one step from the value before to the value loaded;
\* and what get, a receiver read or a stream poll returns is a whole
\* published value: the one in the cell before or after any publish.
C20_AtomicPublish ==
    /\ [](status = "ok" => (get \in Published /\ get = log[Len(log)]))
    /\ [][ch'.version # ch.version =>
            /\ ch.value = log[Len(log)]
            /\ ch'.value = log'[Len(log')]
            /\ Len(log') = Len(log) + 1]_vars
    /\ [][\A s \in Subs :
            (subs'[s].kind # "none" /\ subs'[s].idx # subs[s].idx) =>
                /\ subs'[s].val \in Published
                /\ subs'[s].val = get]_vars

\* C20 case: a stream has read the value held before a publish, and the cell
\* now holds the different value of that publish
C20_Witness ==
    /\ pc \in {"Published", "Sleeping"}
    /\ \E s \in Subs :
         /\ subs[s].kind = "stream"
         /\ subs[s].idx = ch.version
         /\ subs[s].val = log[ch.version]
         /\ subs[s].val # get

\* C21: a stream that has not yielded yet can be polled to a value at once,
\* whatever the cell's version; a stream that has yielded and has seen the
\* cell's version is pending (or at its end once the channel is closed); and
\* every value a stream yields is the cell's, at a publish later than the one
\* it yielded before.
C21_StreamFirstThenChanges ==
    /\ [](\A s \in Subs :
            (subs[s].kind = "stream" /\ ~subs[s].ended) =>
                /\ subs[s].idx = 0 => (subs[s].first /\ ENABLED StreamPoll(s))
                /\ (subs[s].idx # 0 /\ subs[s].seen = ch.version /\ ~ch.closed) =>
                      ~ENABLED StreamPoll(s))
    /\ [][\A s \in Subs :
            (subs[s].kind = "stream" /\ subs'[s].kind = "stream"
                /\ subs'[s] # subs[s] /\ ~subs'[s].ended) =>
                /\ subs'[s].val = get
                /\ subs'[s].idx = ch.version + 1
                /\ subs'[s].idx > subs[s].idx
                /\ ~subs'[s].first]_vars

\* C21 case: a stream took its first value before any publish, or skipped
\* none since, has yielded the second publish and is pending
C21_Witness ==
    \E s \in Subs :
        /\ subs[s].kind = "stream"
        /\ ~subs[s].ended
        /\ ~ch.closed
        /\ ch.version = 2
        /\ subs[s].idx = 3
        /\ ~ENABLED StreamPoll(s)

\* construction has returned, the watcher runs, its callback is idle, the
\* backend holds no event, and what the file holds decodes
Settled ==
    /\ kind = "Reloading"
    /\ status = "ok"
    /\ watcher = "active"
    /\ pc = "Idle"
    /\ ~pending
    /\ data_result(path, fs).ok

\* C22 as claimed: whenever the notify adapter is settled, the cell's data is
\* the decode of what the file holds, wherever the writes fell.
C22_NoMissedUpdateWindow ==
    Settled => get.data = data_result(path, fs).data

\* C22 as amended: whenever the notify adapter is settled and no write fell
\* between the initial load and the registration of the watch without a load
\* attempt since, the cell's data is the decode of what the file holds.
C22_NoMissedUpdateOnceWatched ==
    (Settled /\ ~unwatched) => get.data = data_result(path, fs).data

\* C22 case: the file was written after construction, the event was
\* delivered and its reload has replaced the initial data
C22_Witness ==
    /\ Settled
    /\ ~unwatched
    /\ writes >= 1
    /\ ch.version >= 1
    /\ get.data # log[1].data

\* C23: every successful load is published, whether or not its value equals
\* the cell's: the version goes up by one and every subscriber that has not
\* ended has the new version unseen; so with a file never written every
\* publish carries the initial value, and a stream behind the cell's version
\* can be polled to a value.
C23_NoDedup ==
    /\ [][(pc = "Loading" /\ loaded.ok /\ pc' # pc) =>
            /\ ch'.version = ch.version + 1
            /\ Len(log') = Len(log) + 1
            /\ \A s \in Subs :
                 (subs[s].kind # "none" /\ ~subs[s].ended) =>
                     has_changed(ch', subs'[s])]_vars
    /\ []((status = "ok" /\ writes = 0) =>
            /\ Len(log) = ch.version + 1
            /\ \A i \in 1..Len(log) : log[i] = log[1])
    /\ [](\A s \in Subs :
            (subs[s].kind = "stream" /\ ~subs[s].ended
                /\ subs[s].seen < ch.version) => ENABLED StreamPoll(s))

\* C23 case: the file was never written, two reloads have published the same
\* value again, and a stream has been given the second of them
C23_Witness ==
    /\ writes = 0
    /\ ch.version = 2
    /\ log[3] = log[1]
    /\ \E s \in Subs :
         subs[s].kind = "stream" /\ subs[s].idx = 3 /\ subs[s].val = log[1]

\* C24: a handle just returned by receiver() has seen the version the
\* channel was created with, whatever was published or read with get since:
\* while the channel is open, its wait for a change can complete at once
\* exactly when a publish has occurred since construction, and it then reads
\* the current value.
C24_FreshReceiverSeenState ==
    /\ [][\A s \in Subs :
            (subs[s].kind = "none" /\ subs'[s].kind = "receiver") =>
                /\ subs'[s].seen = 0
                /\ has_changed(ch', subs'[s]) <=> ch.version >= 1]_vars
    /\ [](\A s \in Subs :
            (subs[s].kind = "receiver" /\ subs[s].idx = 0 /\ ~subs[s].ended
                /\ ~ch.closed) =>
                (ENABLED RecvChanged(s) <=> ch.version >= 1))
    /\ [][\A s \in Subs :
            (subs[s].kind = "receiver" /\ subs[s].idx = 0
                /\ subs'[s].kind = "receiver" /\ subs'[s].idx # 0) =>
                (subs'[s].val = get /\ subs'[s].seen = ch.version)]_vars

\* C24 case: a handle acquired after a publish has not waited yet and finds
\* the current value unseen
C24_Witness ==
    \E s \in Subs :
        /\ subs[s].kind = "receiver"
        /\ subs[s].idx = 0
        /\ ~subs[s].ended
        /\ ~ch.closed
        /\ ch.version >= 1
        /\ has_changed(ch, subs[s])

====
